---- MODULE Spec2Model ----
(***************************************************************************)
(* Finetuning orchestration of neuralhydrology (nh_run: start_run,         *)
(* finetune, eval_run) as exercised by examples/06-Finetuning.             *)
(*                                                                         *)
(* A configuration record is a function from the keys it contains to       *)
(* their values; a key that is not in the DOMAIN is absent.  A run         *)
(* directory holds the persisted record, the checkpoints (one per epoch),  *)
(* the result tables (one per epoch and period) and the writes to its      *)
(* files that are under way.                                               *)
(***************************************************************************)
EXTENDS Integers, Sequences, FiniteSets, Bags, TLC

VARIABLES
    store,      \* run directory -> [exists, config, ckpts, results, writing]
    run,        \* the finetune run being executed by finetune()
    evals       \* bag of the eval_run invocations made so far

vars == <<store, run, evals>>

(***************************************************************************)
(* Bounds of the model.                                                    *)
(***************************************************************************)
MaxBaseEpochs == 2      \* epochs (= checkpoints) of the pre-trained run
MaxEpochs == 2          \* epochs a finetune config may ask for
MaxEvals == 2           \* eval_run invocations in one behaviour
ValMod == 3             \* parameter values are kept in 0..ValMod-1

(***************************************************************************)
(* Configuration records.                                                  *)
(***************************************************************************)
NoRecord == <<>>

Has(rec, k) == k \in DOMAIN rec

Opt(k, present, v) == IF present THEN (k :> v) ELSE NoRecord

\* variant: finetune_modules is not required
MandatoryKeys_baseOnly == {"base_run_dir"}

\* the two arguments a finetune config has to contain
MandatoryKeys == {"base_run_dir", "finetune_modules"}

\* variant: no argument is treated as an architecture argument
ImmutableKeys_none == {}

\* variant: the hidden size is not treated as an architecture argument
ImmutableKeys_modelOnly == {"model"}

\* arguments that change the model architecture
ImmutableKeys == {"model", "hidden_size"}

BaseRunDir == "runs/cudalstm_maurer_531_basins"
FinetuneRunDir == "runs/cudalstm_maurer_531_basins_finetuned"
RunDirs == {BaseRunDir, FinetuneRunDir}

HiddenSizes == {64, 128}
Models == {"cudalstm", "ealstm"}

\* number of basins listed in a basin file
NumberOfBasins(file) == IF file = "531_basin_list.txt" THEN 531 ELSE 1

\* the fields a run derives from its own run directory and basin file
DerivedFields(dir, rec) ==
    [run_dir |-> dir,
     train_dir |-> <<dir, "train_data">>,
     img_log_dir |-> <<dir, "img_log">>,
     number_of_basins |-> NumberOfBasins(rec.train_basin_file)]

(***************************************************************************)
(* Configuration resolution: the base run's record combined with the       *)
(* arguments of the finetune config.                                       *)
(***************************************************************************)
\* mandatory arguments the finetune config does not contain
MissingKeys(O) == MandatoryKeys \ DOMAIN O

\* architecture arguments the finetune config sets to another value than
\* the pre-trained model's
ConflictKeys(B, O) ==
    {k \in ImmutableKeys \cap DOMAIN O : Has(B, k) /\ O[k] # B[k]}

\* variant: arguments the base record already has are not overwritten
Merge_baseWins(B, O) ==
    [k \in DOMAIN B \cup DOMAIN O |-> IF Has(B, k) THEN B[k] ELSE O[k]]

\* variant: epochs falls back to one epoch instead of the base run's value
Merge_defaultEpochs(B, O) ==
    [k \in DOMAIN B \cup DOMAIN O |->
        IF Has(O, k) /\ (k \notin ImmutableKeys \/ ~Has(B, k)) THEN O[k]
        ELSE IF k = "epochs" THEN 1 ELSE B[k]]

\* base record with every argument of the finetune config written over it
Merge(B, O) ==
    [k \in DOMAIN B \cup DOMAIN O |->
        IF Has(O, k) /\ (k \notin ImmutableKeys \/ ~Has(B, k))
        THEN O[k] ELSE B[k]]

\* variant: the combined config is marked as a continued training run
FinetuneFlags_continue ==
    [is_finetuning |-> FALSE, is_continue_training |-> TRUE]

\* the flags finetune() sets on the combined config
FinetuneFlags == [is_finetuning |-> TRUE, is_continue_training |-> FALSE]

\* every violation found, each with the offending key
ResolveErrors(B, O) ==
    {<<"MissingRequiredFieldError", k>> : k \in MissingKeys(O)}
        \cup {<<"ConfigConflictError", k>> : k \in ConflictKeys(B, O)}

\* the record of the finetune run, before the run sets its own directories
Resolve(B, O) ==
    IF ResolveErrors(B, O) # {} THEN NoRecord
    ELSE FinetuneFlags @@ Merge(B, O)

ErrorKinds(errs) == {e[1] : e \in errs}

(***************************************************************************)
(* Models, parameters and checkpoints.  A parameter snapshot maps the      *)
(* structural key of each parameter to its shape and value.                *)
(***************************************************************************)
\* variant: the parts of all model classes are taken for every model
ModuleParts_allModels(model) ==
    {"head", "lstm", "input_gate", "dynamic_gates"}

\* the parts of each model class that can be named in finetune_modules
ModuleParts(model) ==
    IF model = "cudalstm" THEN {"head", "lstm"}
    ELSE {"head", "input_gate", "dynamic_gates"}

\* structural keys of the parameters: <<module part, parameter name>>
ParamKeys(model) ==
    {<<m, n>> : m \in ModuleParts(model), n \in {"weight", "bias"}}

ModuleOf(key) == key[1]

\* a freshly constructed model: structure from the config, values untrained
Construct(rec) ==
    [k \in ParamKeys(rec.model) |-> [shape |-> rec.hidden_size, val |-> 0]]

RECURSIVE MaxOf(_)
MaxOf(S) ==
    LET x == CHOOSE y \in S : TRUE
    IN  IF S = {x} THEN x
        ELSE LET m == MaxOf(S \ {x}) IN IF x > m THEN x ELSE m

RECURSIVE MinOf(_)
MinOf(S) ==
    LET x == CHOOSE y \in S : TRUE
    IN  IF S = {x} THEN x
        ELSE LET m == MinOf(S \ {x}) IN IF x < m THEN x ELSE m

\* variant: the first checkpoint found is taken
Latest_first(ckpts) == IF DOMAIN ckpts = {} THEN 0 ELSE MinOf(DOMAIN ckpts)

\* epoch of the last checkpoint of a run; 0 when the run has none
Latest(ckpts) == IF DOMAIN ckpts = {} THEN 0 ELSE MaxOf(DOMAIN ckpts)

\* keys whose shape in the snapshot differs from the model's
ShapeMismatch(model, snap) ==
    {k \in DOMAIN model \cup DOMAIN snap :
        \/ k \notin DOMAIN model
        \/ k \notin DOMAIN snap
        \/ model[k].shape # snap[k].shape}

\* variant: only the weights of the lstm are taken from the snapshot
Load_lstmOnly(model, snap) ==
    [k \in DOMAIN model |-> IF ModuleOf(k) = "lstm" THEN snap[k] ELSE model[k]]

\* the model with the snapshot's values, matched key by key
Load(model, snap) == [k \in DOMAIN model |-> snap[k]]

\* finetune_modules entries that are no part of the model class
UnknownModules(rec) == rec.finetune_modules \ ModuleParts(rec.model)

\* variant: the listed modules are the ones that are frozen
TrainabilityMask_inverted(rec, model) ==
    [k \in DOMAIN model |-> ModuleOf(k) \notin rec.finetune_modules]

\* variant: nothing is frozen
TrainabilityMask_all(rec, model) == [k \in DOMAIN model |-> TRUE]

\* requires_grad of every parameter
TrainabilityMask(rec, model) ==
    [k \in DOMAIN model |-> ModuleOf(k) \in rec.finetune_modules]

\* variant: the optimizer steps every parameter
Step_ignoresMask(model, mask, g) ==
    [k \in DOMAIN model |-> [model[k] EXCEPT !.val = (@ + g) % ValMod]]

\* what an optimizer step adds to a weight: nothing (vanishing gradient)
\* or something
Grads == {0, 1}

\* one optimizer step: only parameters that require gradients move
Step(model, mask, g) ==
    [k \in DOMAIN model |->
        IF mask[k] THEN [model[k] EXCEPT !.val = (@ + g) % ValMod]
        ELSE model[k]]

Periods == {"train", "validation", "test"}

PeriodIdx(p) == IF p = "train" THEN 0 ELSE IF p = "validation" THEN 1 ELSE 2

RECURSIVE SumVals(_, _)
SumVals(snap, keys) ==
    IF keys = {} THEN 0
    ELSE LET k == CHOOSE x \in keys : TRUE
         IN  snap[k].val + SumVals(snap, keys \ {k})

\* result table of one evaluation: the metric engine applied to the weights
\* of the checkpoint over the basins and the period of the config
Table(snap, period, rec) ==
    [basins |-> rec.number_of_basins,
     period |-> period,
     NSE |-> SumVals(snap, DOMAIN snap) * 3 + PeriodIdx(period)]

\* values of the pre-trained run's checkpoint of epoch e
BaseSnapshot(rec, e) ==
    [k \in ParamKeys(rec.model) |->
        [shape |-> rec.hidden_size,
         val |-> 1 + ((e + (IF ModuleOf(k) = "head" THEN 1 ELSE 0))
                        % (ValMod - 1))]]

(***************************************************************************)
(* Inputs.                                                                 *)
(***************************************************************************)
\* finetune_modules lists a finetune config may contain
ModuleLists == {{}, {"head"}, {"head", "lstm"}, {"head", "input_gate"}}

\* finetune configs: every argument is optional in the file
Overrides ==
    {Opt("base_run_dir", pb, BaseRunDir) @@ Opt("finetune_modules", pf, fm)
        @@ Opt("model", pm, m) @@ Opt("hidden_size", ph, hs)
        @@ Opt("train_basin_file", pt, "finetune_basin.txt")
        @@ Opt("epochs", pe, ep) :
            pb \in BOOLEAN, pf \in BOOLEAN, fm \in ModuleLists,
            pm \in BOOLEAN, m \in Models, ph \in BOOLEAN, hs \in HiddenSizes,
            pt \in BOOLEAN, pe \in BOOLEAN, ep \in 1..MaxEpochs}

\* config of the pre-trained run, as start_run persisted it
BaseRecord(hs, n) ==
    LET cfg == [model |-> "cudalstm", hidden_size |-> hs,
                train_basin_file |-> "531_basin_list.txt", epochs |-> n]
    IN  DerivedFields(BaseRunDir, cfg) @@ cfg

EmptyDir == [exists |-> FALSE, config |-> NoRecord, ckpts |-> <<>>,
             results |-> <<>>, writing |-> EmptyBag]

\* run directory of the pre-trained run after c of its epochs
BaseDir(rec, c) ==
    [exists |-> TRUE,
     config |-> rec,
     ckpts |-> [e \in 1..c |-> BaseSnapshot(rec, e)],
     results |-> [t \in (1..c) \X {"validation"} |->
                    Table(BaseSnapshot(rec, t[1]), "validation", rec)],
     writing |-> EmptyBag]

NoRun == [state |-> "created", override |-> NoRecord, run_dir |-> "",
          record |-> NoRecord, errors |-> {}, model |-> <<>>, mask |-> <<>>,
          epoch |-> 0, initParams |-> <<>>]

\* finetune configs used when whole runs are explored: the architecture
\* argument they may contain is a hidden_size other than the base run's
RunOverrides ==
    {O \in Overrides :
        ~Has(O, "model") /\ (Has(O, "hidden_size") => O.hidden_size = 64)}

\* the pre-trained run: hidden size hs, interrupted or finished after c of
\* its MaxBaseEpochs epochs
InitWith(hs, c) ==
    /\ store = [d \in RunDirs |->
                    IF d = BaseRunDir
                    THEN BaseDir(BaseRecord(hs, MaxBaseEpochs), c)
                    ELSE EmptyDir]
    /\ run = NoRun
    /\ evals = EmptyBag

Init == \E c \in 0..MaxBaseEpochs : InitWith(128, c)

(***************************************************************************)
(* The run orchestrator.                                                   *)
(***************************************************************************)
\* state of the run that owns a run directory
StateOf(d) ==
    IF d = run.run_dir THEN run.state
    ELSE IF d = BaseRunDir
         THEN (IF Latest(store[d].ckpts) = store[d].config.epochs
               THEN "completed" ELSE "failed")
         ELSE "none"

\* the record persisted in the directory base_run_dir points at
BaseRecordOf(O) ==
    IF Has(O, "base_run_dir") THEN store[O.base_run_dir].config ELSE NoRecord

\* variant: run_dir is taken over from the base run's config
RunDirOf_inherited(rec, st) == rec.run_dir

\* the new run gets a folder of its own
RunDirOf(rec, st) == CHOOSE d \in RunDirs : ~st[d].exists

\* variant: a finished run is started over by the next finetune()
finetune_rerun(O) ==
    /\ run.state \in {"created", "completed"}
    /\ run' = [NoRun EXCEPT !.state = "configuring", !.override = O]
    /\ UNCHANGED <<store, evals>>

\* variant: a failed run is taken up again by the next finetune()
finetune_again(O) ==
    /\ run.state \in {"created", "failed"}
    /\ run' = [run EXCEPT !.state = "configuring", !.override = O]
    /\ UNCHANGED <<store, evals>>

\* finetune(config_file): the finetune config is read
finetune(O) ==
    /\ run.state = "created"
    /\ run' = [run EXCEPT !.state = "configuring", !.override = O]
    /\ UNCHANGED <<store, evals>>

\* variant: the combined config is kept in memory and not stored
ResolveConfig_unsaved ==
    /\ run.state = "configuring"
    /\ run.record = NoRecord
    /\ LET O == run.override
           B == BaseRecordOf(O)
           errs == ResolveErrors(B, O)
           cfg == Resolve(B, O)
           dir == RunDirOf(cfg, store)
           rec == DerivedFields(dir, cfg) @@ cfg
       IN  IF errs # {}
           THEN run' = [run EXCEPT !.state = "failed", !.errors = errs]
           ELSE run' = [run EXCEPT !.run_dir = dir, !.record = rec]
    /\ UNCHANGED <<store, evals>>

\* the finetune config is combined with the base run's config; the folder
\* structure of the new run is created and the config stored in it
ResolveConfig ==
    /\ run.state = "configuring"
    /\ run.record = NoRecord
    /\ LET O == run.override
           B == BaseRecordOf(O)
           errs == ResolveErrors(B, O)
           cfg == Resolve(B, O)
           dir == RunDirOf(cfg, store)
           rec == DerivedFields(dir, cfg) @@ cfg
       IN  IF errs # {}
           THEN /\ run' = [run EXCEPT !.state = "failed", !.errors = errs]
                /\ UNCHANGED store
           ELSE /\ run' = [run EXCEPT !.run_dir = dir, !.record = rec]
                /\ store' = [store EXCEPT ![dir].exists = TRUE,
                                          ![dir].config = rec]
    /\ UNCHANGED evals

\* the run is marked failed and the error kept with it
Fail(kind, what) ==
    run' = [run EXCEPT !.state = "failed", !.errors = {<<kind, what>>}]

\* the model is built from the config, the weights of the base run's last
\* checkpoint are loaded into it and the finetune_modules are unfrozen
InitializeModel ==
    /\ run.state = "configuring"
    /\ run.record # NoRecord
    /\ LET rec == run.record
           ckpts == store[rec.base_run_dir].ckpts
           e == Latest(ckpts)
           fresh == Construct(rec)
           loaded == Load(fresh, ckpts[e])
       IN  IF e = 0
           THEN Fail("NoCheckpointFoundError", rec.base_run_dir)
           ELSE IF ShapeMismatch(fresh, ckpts[e]) # {}
           THEN Fail("ParameterShapeMismatchError",
                     ShapeMismatch(fresh, ckpts[e]))
           ELSE IF UnknownModules(rec) # {}
           THEN Fail("UnknownModuleError", UnknownModules(rec))
           ELSE run' = [run EXCEPT !.state = "training",
                                   !.model = loaded,
                                   !.mask = TrainabilityMask(rec, loaded),
                                   !.initParams = loaded]
    /\ UNCHANGED <<store, evals>>

\* one epoch of the training loop: the optimizer steps, the weights are
\* saved (save_weights_every: 1) and the validation results are stored
\* (validate_every: 1)
TrainEpoch(g) ==
    /\ run.state = "training"
    /\ run.epoch < run.record.epochs
    /\ LET e == run.epoch + 1
           m == Step(run.model, run.mask, g)
           d == run.run_dir
       IN  /\ run' = [run EXCEPT
                        !.model = m,
                        !.epoch = e,
                        !.state = IF e = run.record.epochs
                                  THEN "completed" ELSE "training"]
           /\ store' = [store EXCEPT
                        ![d].ckpts = (e :> m) @@ @,
                        ![d].results =
                            (<<e, "validation">> :>
                                Table(m, "validation", run.record)) @@ @]
    /\ UNCHANGED evals

\* epoch of the checkpoint eval_run uses: the last one unless an epoch is
\* given (epoch 0 stands for "no epoch given")
EvalEpoch(ckpts, epoch) == IF epoch = 0 THEN Latest(ckpts) ELSE epoch

\* variant: the weights of the first checkpoint are used for every epoch
EvalWeights_first(ckpts, e) == ckpts[MinOf(DOMAIN ckpts)]

\* variant: the weights of the last checkpoint are used for every epoch
EvalWeights_latest(ckpts, e) == ckpts[Latest(ckpts)]

\* "Using the model weights from <run_dir>/model_epoch<e>.pt"
EvalWeights(ckpts, e) == ckpts[e]

\* periods eval_run is invoked with: the one the training loop evaluates
\* itself after every epoch, and the one only eval_run evaluates
EvalPeriods == {"validation", "test"}

\* epoch arguments eval_run is invoked with: none (0), or the first epoch
EvalEpochArgs == {0, 1}

\* eval_run(run_dir, period, epoch)
eval_run(d, period, epoch) ==
    /\ StateOf(d) \in {"training", "completed"}
    /\ BagCardinality(evals) < MaxEvals
    /\ LET ckpts == store[d].ckpts
           e == EvalEpoch(ckpts, epoch)
           ok == e \in DOMAIN ckpts
           table == IF ok
                    THEN Table(EvalWeights(ckpts, e), period, store[d].config)
                    ELSE <<>>
       IN  /\ evals' = evals (+) SetToBag({
                    [dir |-> d, arg |-> epoch, epoch |-> e, period |-> period,
                     error |-> IF ok THEN "" ELSE "NoCheckpointFoundError",
                     table |-> table]})
           /\ IF ok
              THEN store' = [store EXCEPT ![d].results =
                                (<<e, period>> :> table) @@ @]
              ELSE UNCHANGED store
    /\ UNCHANGED run

Next ==
    \/ \E O \in RunOverrides : finetune(O)
    \/ ResolveConfig
    \/ InitializeModel
    \/ \E g \in Grads : TrainEpoch(g)
    \/ \E d \in RunDirs, p \in EvalPeriods, e \in EvalEpochArgs :
            eval_run(d, p, e)

Spec == Init /\ [][Next]_vars

(***************************************************************************)
(* Training and evaluation as separate processes: finetune() runs in one,  *)
(* every eval_run in one of its own.  A file is open from the step that    *)
(* starts writing it to the step that has written it.                      *)
(***************************************************************************)
\* <run_dir>/model_epoch<e>.pt
CkptFile(e) == <<"model_epoch", e, ".pt">>

\* variant: the results of an epoch go to one file for all periods
ResultFile_epochOnly(e, period) == <<"model_epoch", e, "results.p">>

\* <run_dir>/<period>/model_epoch<e>/<period>_results.p
ResultFile(e, period) == <<period, "model_epoch", e, "results.p">>

\* a write under way: who writes, and what
Write(writer, kind, e, period) ==
    [writer |-> writer, kind |-> kind, epoch |-> e, period |-> period]

\* the file a write goes to
FileOf(w) ==
    IF w.kind = "ckpt" THEN CkptFile(w.epoch)
    ELSE ResultFile(w.epoch, w.period)

\* the write of the training loop that is under way, if any
TrainWrites == {w \in BagToSet(store[FinetuneRunDir].writing) :
                    w.writer = "train"}

\* the training loop has stepped through an epoch and starts saving the
\* weights
SaveWeights(g) ==
    /\ run.state = "training"
    /\ run.epoch < run.record.epochs
    /\ TrainWrites = {}
    /\ LET e == run.epoch + 1
           d == run.run_dir
       IN  /\ run' = [run EXCEPT !.model = Step(run.model, run.mask, g),
                                 !.epoch = e]
           /\ store' = [store EXCEPT ![d].writing =
                            @ (+) SetToBag({Write("train", "ckpt", e, "")})]
    /\ UNCHANGED evals

\* the weights are saved; the epoch is validated and the training loop
\* starts storing the validation results
WeightsSaved ==
    /\ run.state = "training"
    /\ \E w \in TrainWrites :
        /\ w.kind = "ckpt"
        /\ store' = [store EXCEPT
                ![run.run_dir].ckpts = (w.epoch :> run.model) @@ @,
                ![run.run_dir].writing =
                    (@ (-) SetToBag({w})) (+)
                    SetToBag({Write("train", "results", w.epoch,
                                    "validation")})]
    /\ UNCHANGED <<run, evals>>

\* the validation results are stored; after the last epoch the run is
\* completed
ResultsStored ==
    /\ run.state = "training"
    /\ \E w \in TrainWrites :
        /\ w.kind = "results"
        /\ store' = [store EXCEPT
                ![run.run_dir].results =
                    (<<w.epoch, w.period>> :>
                        Table(run.model, w.period, run.record)) @@ @,
                ![run.run_dir].writing = @ (-) SetToBag({w})]
        /\ run' = [run EXCEPT !.state = IF w.epoch = run.record.epochs
                                        THEN "completed" ELSE "training"]
    /\ UNCHANGED evals

\* eval_run(run_dir, period, epoch) up to the point where it starts storing
\* its results
EvalOpen(d, period, epoch) ==
    /\ StateOf(d) \in {"training", "completed"}
    /\ BagCardinality(evals) < MaxEvals
    /\ LET ckpts == store[d].ckpts
           e == EvalEpoch(ckpts, epoch)
           ok == e \in DOMAIN ckpts
           table == IF ok
                    THEN Table(EvalWeights(ckpts, e), period, store[d].config)
                    ELSE <<>>
       IN  /\ evals' = evals (+) SetToBag({
                    [dir |-> d, arg |-> epoch, epoch |-> e, period |-> period,
                     error |-> IF ok THEN "" ELSE "NoCheckpointFoundError",
                     table |-> table]})
           /\ IF ok
              THEN store' = [store EXCEPT ![d].writing =
                        @ (+) SetToBag({Write("eval", "results", e, period)})]
              ELSE UNCHANGED store
    /\ UNCHANGED run

\* an eval_run has stored its results
EvalStored(d) ==
    /\ \E w \in BagToSet(store[d].writing) :
        /\ w.writer = "eval"
        /\ store' = [store EXCEPT
                ![d].results =
                    (<<w.epoch, w.period>> :>
                        Table(EvalWeights(store[d].ckpts, w.epoch),
                              w.period, store[d].config)) @@ @,
                ![d].writing = @ (-) SetToBag({w})]
    /\ UNCHANGED <<run, evals>>

\* finetune configs of the runs whose writes are explored: the basins and
\* the architecture arguments are left as they are in the base run
WriterOverrides ==
    {O \in RunOverrides :
        ~Has(O, "train_basin_file") /\ ~Has(O, "hidden_size")}

\* the run whose training loop and evaluations write side by side
WriterDirs == {FinetuneRunDir}

NextWriters ==
    \/ \E O \in WriterOverrides : finetune(O)
    \/ ResolveConfig
    \/ InitializeModel
    \/ \E g \in Grads : SaveWeights(g)
    \/ WeightsSaved
    \/ ResultsStored
    \/ \E d \in WriterDirs, p \in EvalPeriods, e \in EvalEpochArgs :
            EvalOpen(d, p, e)
    \/ \E d \in WriterDirs : EvalStored(d)

SpecWriters == Init /\ [][NextWriters]_vars

(***************************************************************************)
(* Configuration resolution on its own: every finetune config against      *)
(* every pre-trained run.                                                  *)
(***************************************************************************)
InitResolve ==
    \E hs \in HiddenSizes, c \in 0..MaxBaseEpochs : InitWith(hs, c)

NextResolve ==
    \/ \E O \in Overrides : finetune(O)
    \/ ResolveConfig

SpecResolve == InitResolve /\ [][NextResolve]_vars

(***************************************************************************)
(* Resolution followed by the initialization of the model: every finetune  *)
(* config against every pre-trained run.                                   *)
(***************************************************************************)
NextInitialize ==
    \/ \E O \in Overrides : finetune(O)
    \/ ResolveConfig
    \/ InitializeModel

SpecInitialize == InitResolve /\ [][NextInitialize]_vars

(***************************************************************************)
(* Properties of configuration resolution.                                 *)
(***************************************************************************)
\* resolution has run: it produced a record or it failed before one existed
ResolutionDone == run.record # NoRecord \/ run.state = "failed"

ResolutionFailed == run.state = "failed" /\ run.record = NoRecord

\* the finetune config changes no architecture argument of the base record
KeepsArchitecture(B, O) ==
    \A k \in {"model", "hidden_size"} : Has(O, k) /\ Has(B, k) => O[k] = B[k]

HasMandatory(O) == {"base_run_dir", "finetune_modules"} \subseteq DOMAIN O

ThmC3 ==
    LET O == run.override
    IN  ResolutionDone =>
            \A k \in {"base_run_dir", "finetune_modules"} :
                ~Has(O, k) =>
                    /\ <<"MissingRequiredFieldError", k>> \in run.errors
                    /\ ResolutionFailed
                    /\ store[FinetuneRunDir] = EmptyDir

\* the finetune config omits base_run_dir
WitC3 ==
    /\ ResolutionFailed
    /\ Has(run.override, "finetune_modules")
    /\ run.errors = {<<"MissingRequiredFieldError", "base_run_dir">>}

\* fields by which a finetune run's record is told from a base run's
FinetuningFields ==
    {"base_run_dir", "finetune_modules", "is_finetuning",
     "is_continue_training"}

ThmC11 ==
    LET O == run.override
        B == BaseRecordOf(O)
    IN  run.record # NoRecord =>
            /\ Has(run.record, "is_finetuning")
            /\ run.record.is_finetuning = TRUE
            /\ Has(run.record, "base_run_dir")
            /\ run.record.base_run_dir = O.base_run_dir
            /\ store[run.run_dir].config.is_finetuning = TRUE
            /\ store[run.run_dir].config.base_run_dir = O.base_run_dir
            /\ ~(Has(B, "is_finetuning") /\ B.is_finetuning = TRUE)
            /\ ~Has(B, "base_run_dir")
            /\ run.record # B

\* a resolved config that changes the number of epochs, pointing at a base
\* run whose stored config has neither flag nor back-reference
WitC11 ==
    /\ run.record # NoRecord
    /\ Has(run.override, "epochs")
    /\ run.record.is_finetuning
    /\ run.record.base_run_dir = BaseRunDir
    /\ store[run.run_dir].config = run.record
    /\ DOMAIN store[BaseRunDir].config \cap FinetuningFields = {}

(***************************************************************************)
(* Properties of whole runs.                                               *)
(***************************************************************************)
Initialized == run.state \in {"training", "completed"}

\* e is the highest epoch for which the directory holds a checkpoint
IsLastEpoch(e, ckpts) ==
    e \in DOMAIN ckpts /\ \A e2 \in DOMAIN ckpts : e2 <= e

\* a step of eval_run
EvalStep == evals' # evals

\* the invocation an eval_run step adds to the bag
ThisEval ==
    CHOOSE t \in BagToSet(evals') : CopiesIn(t, evals') > CopiesIn(t, evals)

\* C4: after initialization and before the first training step, every
\* parameter of the new model has the shape and value stored under the same
\* key in the base run's last checkpoint.
ThmC4 ==
    (run.state = "training" /\ run.epoch = 0) =>
        \E e \in DOMAIN store[BaseRunDir].ckpts :
            LET snap == store[BaseRunDir].ckpts[e]
            IN  /\ IsLastEpoch(e, store[BaseRunDir].ckpts)
                /\ DOMAIN run.model = DOMAIN snap
                /\ \A k \in DOMAIN snap : run.model[k] = snap[k]
                /\ DOMAIN run.mask = DOMAIN run.model

\* initialized from a base run with several checkpoints whose last one
\* differs from a freshly built model in every parameter
WitC4 ==
    /\ run.state = "training"
    /\ run.epoch = 0
    /\ DOMAIN store[BaseRunDir].ckpts = 1..2
    /\ \A k \in DOMAIN run.model :
            /\ run.model[k].val # Construct(run.record)[k].val
            /\ run.model[k] # store[BaseRunDir].ckpts[1][k]

\* C5: the mask has a boolean for every parameter of the model, and a
\* parameter is trainable exactly if its module part is listed in
\* finetune_modules; with every part listed the whole model is trainable.
ThmC5 ==
    Initialized =>
        /\ DOMAIN run.mask = DOMAIN run.model
        /\ DOMAIN run.mask =
                {"head", "lstm"} \X {"weight", "bias"}
        /\ \A k \in DOMAIN run.mask :
                /\ run.mask[k] \in BOOLEAN
                /\ run.mask[k] <=> (k[1] \in run.record.finetune_modules)
        /\ run.record.finetune_modules = {"head", "lstm"} =>
                \A k \in DOMAIN run.mask : run.mask[k]

\* only the head is finetuned: the lstm is frozen
WitC5 ==
    /\ Initialized
    /\ run.record.finetune_modules = {"head"}
    /\ run.mask[<<"head", "weight">>]
    /\ ~run.mask[<<"lstm", "weight">>]

\* C6: an empty finetune_modules list raises no error, leaves no parameter
\* trainable, and the model and every checkpoint the run saves keep the
\* values the model had right after initialization.
ThmC6 ==
    (Has(run.override, "finetune_modules")
        /\ run.override.finetune_modules = {}) =>
        /\ ErrorKinds(run.errors) \cap
                {"UnknownModuleError", "ParameterShapeMismatchError"} = {}
        /\ \A e \in run.errors : e[2] # "finetune_modules"
        /\ (ResolutionDone /\ Has(run.override, "base_run_dir")
                /\ KeepsArchitecture(store[BaseRunDir].config, run.override))
                => run.record # NoRecord
        /\ (run.record # NoRecord /\ run.state = "failed") =>
                store[BaseRunDir].ckpts = <<>>
        /\ Initialized =>
                /\ \A k \in DOMAIN run.mask : ~run.mask[k]
                /\ run.model = run.initParams
                /\ \A e \in DOMAIN store[run.run_dir].ckpts :
                        store[run.run_dir].ckpts[e] = run.initParams

\* all epochs trained with an empty finetune_modules list
WitC6 ==
    /\ run.state = "completed"
    /\ run.record.finetune_modules = {}
    /\ run.epoch = MaxEpochs
    /\ DOMAIN store[run.run_dir].ckpts = 1..MaxEpochs

\* C7: no operation changes the base run's config or checkpoints, and no
\* operation of the finetune run changes anything in the base run's
\* directory; the finetune run has a directory of its own, different from
\* the base run's, that holds its config and every checkpoint and
\* validation result it has produced.
ThmC7 ==
    /\ [][/\ store'[BaseRunDir].config = store[BaseRunDir].config
          /\ store'[BaseRunDir].ckpts = store[BaseRunDir].ckpts
          /\ ~EvalStep => store'[BaseRunDir] = store[BaseRunDir]]_vars
    /\ [](run.record # NoRecord =>
            /\ run.run_dir = FinetuneRunDir
            /\ run.run_dir # run.record.base_run_dir
            /\ run.record.run_dir = run.run_dir
            /\ store[run.run_dir].config = run.record
            /\ DOMAIN store[run.run_dir].ckpts = 1..run.epoch
            /\ \A e \in 1..run.epoch :
                    <<e, "validation">> \in DOMAIN store[run.run_dir].results
            /\ run.epoch > 0 => store[run.run_dir].ckpts[run.epoch] = run.model)

\* the finetune run has trained all its epochs next to a base run that has
\* checkpoints of its own
WitC7 ==
    /\ run.state = "completed"
    /\ run.epoch = MaxEpochs
    /\ DOMAIN store[BaseRunDir].ckpts = 1..MaxBaseEpochs
    /\ run.model # run.initParams

\* C8: the last checkpoint is the one with the highest epoch; a run
\* directory without checkpoints gives NoCheckpointFoundError; eval_run
\* evaluates the last checkpoint unless an epoch is given; finetune starts
\* from the base run's last checkpoint.
ThmC8 ==
    /\ [](Initialized =>
            \E e \in DOMAIN store[BaseRunDir].ckpts :
                /\ IsLastEpoch(e, store[BaseRunDir].ckpts)
                /\ run.initParams = store[BaseRunDir].ckpts[e])
    /\ []("NoCheckpointFoundError" \in ErrorKinds(run.errors) =>
            /\ store[BaseRunDir].ckpts = <<>>
            /\ run.state = "failed"
            /\ store[run.run_dir].ckpts = <<>>)
    /\ []((run.record # NoRecord /\ run.state = "failed"
                /\ store[BaseRunDir].ckpts = <<>>) =>
            run.errors = {<<"NoCheckpointFoundError", BaseRunDir>>})
    /\ [][EvalStep =>
            LET t == ThisEval
                ckpts == store[t.dir].ckpts
            IN  /\ t.arg = 0 =>
                    /\ (t.error = "NoCheckpointFoundError")
                            <=> (DOMAIN ckpts = {})
                    /\ t.error = "" => IsLastEpoch(t.epoch, ckpts)
                /\ t.arg # 0 => t.epoch = t.arg
                /\ t.error = "" =>
                    /\ t.epoch \in DOMAIN ckpts
                    /\ t.table = Table(ckpts[t.epoch], t.period,
                                       store[t.dir].config)
                    /\ store'[t.dir].results[<<t.epoch, t.period>>] = t.table
                /\ t.error # "" => store' = store]_vars

\* eval_run without an epoch on a run with two checkpoints, and eval_run
\* on a run that has not saved a checkpoint yet
WitC8 ==
    \E a, b \in BagToSet(evals) :
        /\ a.arg = 0 /\ a.error = "NoCheckpointFoundError"
        /\ b.arg = 0 /\ b.epoch = 2 /\ b.error = ""
        /\ a.dir = FinetuneRunDir /\ b.dir = FinetuneRunDir

\* the same run, epoch and period
SameEval(a, b) == a.dir = b.dir /\ a.epoch = b.epoch /\ a.period = b.period

\* C9: two eval_run invocations on the same run, epoch and period that
\* each produce a result table produce the same table, however far apart
\* they are; the second leaves the run directory as it was, and eval_run
\* changes nothing in another run's directory.
ThmC9 ==
    /\ [](\A a, b \in BagToSet(evals) :
            (SameEval(a, b) /\ a.error = "" /\ b.error = "")
                => a.table = b.table)
    /\ [][EvalStep =>
            /\ \A d \in RunDirs \ {ThisEval.dir} : store'[d] = store[d]
            /\ run' = run
            /\ (\E a \in BagToSet(evals) :
                    SameEval(a, ThisEval) /\ a.error = ""
                        /\ ThisEval.error = "")
                => /\ store'[ThisEval.dir].results[
                        <<ThisEval.epoch, ThisEval.period>>] = ThisEval.table
                   /\ store' = store]_vars

\* epoch 1 of the finetune run evaluated on the test period while it was
\* the last checkpoint and again after a later epoch changed the weights
WitC9 ==
    /\ \E a, b \in BagToSet(evals) :
        /\ SameEval(a, b)
        /\ a.dir = FinetuneRunDir /\ a.period = "test" /\ a.epoch = 1
        /\ a.arg = 0 /\ a.error = ""
        /\ b.arg = 1 /\ b.error = ""
    /\ run.epoch = 2
    /\ store[FinetuneRunDir].ckpts[2] # store[FinetuneRunDir].ckpts[1]

\* C12: when finetune_modules names something that is no part of the model
\* class (CudaLSTM: head, lstm), computing the mask fails with
\* UnknownModuleError naming exactly the offending entries, no mask is
\* produced and training never starts; the error is raised for no other
\* reason.  The mask is only computed when the base run's last checkpoint
\* was found and loaded.
ThmC12 ==
    LET offending == run.record.finetune_modules \ {"head", "lstm"}
        attempted == run.state # "configuring"
                        /\ store[BaseRunDir].ckpts # <<>>
    IN  /\ (run.record # NoRecord /\ offending # {}) =>
                /\ DOMAIN run.mask = {}
                /\ run.state \in {"configuring", "failed"}
                /\ attempted =>
                        /\ run.state = "failed"
                        /\ run.errors = {<<"UnknownModuleError", offending>>}
                        /\ store[run.run_dir].ckpts = <<>>
        /\ "UnknownModuleError" \in ErrorKinds(run.errors) =>
                /\ run.record # NoRecord
                /\ offending # {}
        /\ (run.record # NoRecord /\ offending = {} /\ attempted) =>
                /\ Initialized
                /\ DOMAIN run.mask = DOMAIN run.model

\* finetune_modules: [head, input_gate] for a CudaLSTM
WitC12 ==
    /\ run.state = "failed"
    /\ run.record # NoRecord
    /\ run.record.finetune_modules = {"head", "input_gate"}
    /\ run.errors = {<<"UnknownModuleError", {"input_gate"}>>}
    /\ DOMAIN run.mask = {}
    /\ store[BaseRunDir].ckpts # <<>>

\* the moves along created -> configuring -> training -> completed | failed
ChainMoves ==
    {<<"created", "configuring">>, <<"configuring", "training">>,
     <<"training", "completed">>, <<"training", "failed">>}

\* the run a directory belongs to is training or completed
Evaluable(d) ==
    IF d = BaseRunDir
    THEN store[d].ckpts # <<>>
            /\ IsLastEpoch(store[d].config.epochs, store[d].ckpts)
    ELSE d = run.run_dir /\ run.state \in {"training", "completed"}

\* eval_run is performed only on a run that is training or completed
EvalOnlyOnLiveRuns == [][EvalStep => Evaluable(ThisEval.dir)]_vars

\* completed and failed are never left
TerminalStates ==
    [][run.state \in {"completed", "failed"} => run'.state = run.state]_vars

ResolutionErrors == {"MissingRequiredFieldError", "ConfigConflictError"}

\* errors raised while the model is initialized, in the run's folder
InitializationErrors ==
    {"UnknownModuleError", "NoCheckpointFoundError",
     "ParameterShapeMismatchError"}

ThmC15 ==
    /\ [][run.state # "training" /\ run'.state = "training" =>
            /\ store[FinetuneRunDir].exists
            /\ store[FinetuneRunDir].config = run.record
            /\ run.record # NoRecord
            /\ store[FinetuneRunDir].ckpts = <<>>
            /\ run.epoch = 0]_vars
    /\ []((run.state \in {"training", "completed"}
                \/ store[FinetuneRunDir].ckpts # <<>>
                \/ store[FinetuneRunDir].results # <<>>) =>
            /\ store[FinetuneRunDir].config # NoRecord
            /\ store[FinetuneRunDir].config = run.record)
    /\ [][store[FinetuneRunDir].config # NoRecord =>
            store'[FinetuneRunDir].config = store[FinetuneRunDir].config]_vars
    /\ [][run.record # NoRecord => run'.record = run.record]_vars

\* the stored record after every epoch was trained and saved and the run
\* was evaluated on the test period
WitC15 ==
    /\ run.state = "completed"
    /\ store[FinetuneRunDir].config = run.record
    /\ DOMAIN store[FinetuneRunDir].ckpts = 1..run.record.epochs
    /\ <<run.record.epochs, "test">> \in DOMAIN store[FinetuneRunDir].results
    /\ run.record.train_basin_file = "finetune_basin.txt"

\* C18: an eval_run that produces a table stores it under the epoch and
\* period it evaluated, in the run directory it was given; every
\* checkpoint, every stored config and every result that was there before
\* the call is there after it with the same content (the results of the
\* epoch and period evaluated included, when they were there already), and
\* nothing else is added.
ThmC18 ==
    [][EvalStep =>
        LET t == ThisEval
        IN  /\ \A d \in RunDirs :
                /\ store'[d].exists = store[d].exists
                /\ store'[d].config = store[d].config
                /\ store'[d].ckpts = store[d].ckpts
                /\ \A key \in DOMAIN store[d].results :
                        /\ key \in DOMAIN store'[d].results
                        /\ store'[d].results[key] = store[d].results[key]
                /\ DOMAIN store'[d].results \subseteq
                        DOMAIN store[d].results \cup
                            (IF d = t.dir /\ t.error = ""
                             THEN {<<t.epoch, t.period>>} ELSE {})
            /\ t.error = "" =>
                    /\ <<t.epoch, t.period>> \in DOMAIN store'[t.dir].results
                    /\ store'[t.dir].results[<<t.epoch, t.period>>] = t.table
            /\ run' = run]_vars

\* the run is training its second epoch; its first epoch was evaluated on
\* the validation period, for which the training loop had stored results,
\* and on the test period, for which there were none
WitC18 ==
    /\ run.state = "training"
    /\ run.epoch = 1
    /\ \E a, b \in BagToSet(evals) :
            /\ a.dir = FinetuneRunDir /\ a.period = "validation"
            /\ b.dir = FinetuneRunDir /\ b.period = "test"
            /\ a.epoch = 1 /\ b.epoch = 1
            /\ a.error = "" /\ b.error = ""
    /\ DOMAIN store[FinetuneRunDir].results =
            {<<1, "validation">>, <<1, "test">>}

\* C19: in every checkpoint of the finetune run, every parameter of a
\* module that is not listed in finetune_modules (the parameters the mask
\* marks frozen) has the shape and value it has in the last checkpoint of
\* the base run, from which the run was initialized; so does the model in
\* memory.
ThmC19 ==
    Initialized =>
        \E e0 \in DOMAIN store[BaseRunDir].ckpts :
            LET base == store[BaseRunDir].ckpts[e0]
                frozen == {k \in DOMAIN base :
                            k[1] \notin run.record.finetune_modules}
            IN  /\ IsLastEpoch(e0, store[BaseRunDir].ckpts)
                /\ frozen = {k \in DOMAIN run.mask : ~run.mask[k]}
                /\ \A k \in frozen : run.model[k] = base[k]
                /\ \A e \in DOMAIN store[FinetuneRunDir].ckpts :
                        LET ckpt == store[FinetuneRunDir].ckpts[e]
                        IN  /\ DOMAIN ckpt = DOMAIN base
                            /\ \A k \in frozen : ckpt[k] = base[k]
                            /\ {k \in DOMAIN ckpt : ckpt[k] # base[k]}
                                    \subseteq
                                {k \in DOMAIN ckpt : k[1] \in
                                    run.record.finetune_modules}

\* only the head was finetuned: after all epochs its weights differ from
\* the base run's, the weights of the lstm do not
WitC19 ==
    /\ run.state = "completed"
    /\ run.record.finetune_modules = {"head"}
    /\ run.epoch = MaxEpochs
    /\ LET ckpt == store[FinetuneRunDir].ckpts[MaxEpochs]
       IN  /\ ckpt[<<"head", "weight">>] # run.initParams[<<"head", "weight">>]
           /\ ckpt[<<"lstm", "weight">>] = run.initParams[<<"lstm", "weight">>]

(***************************************************************************)
(* Properties of the writes of training and evaluation.                    *)
(***************************************************************************)
\* two writes under way in run directory d, by different writers
TwoWrites(d, w1, w2) ==
    /\ w1 \in BagToSet(store[d].writing)
    /\ w2 \in BagToSet(store[d].writing)
    /\ w1 # w2 \/ CopiesIn(w1, store[d].writing) > 1

\* C16 as stated: at no time are two writers writing the same checkpoint
\* or result file of a run.
OrigC16 ==
    \A d \in RunDirs : \A w1, w2 \in BagToSet(store[d].writing) :
        TwoWrites(d, w1, w2) => FileOf(w1) # FileOf(w2)

\* C16, amended: a checkpoint file is written by the training loop only
\* and by one write at a time, and the training loop has one file open at
\* most.  Two writers have the same file open only if it is a result file
\* and either both are eval_run invocations for the same epoch and period,
\* or one is the training loop storing the validation results of an epoch
\* and the other an eval_run of that epoch for the validation period.
ThmC16 ==
    \A d \in RunDirs : \A w1, w2 \in BagToSet(store[d].writing) :
        /\ w1.kind = "ckpt" =>
                /\ w1.writer = "train"
                /\ d = run.run_dir
                /\ w1.epoch = run.epoch
                /\ w1.epoch \notin DOMAIN store[d].ckpts
        /\ w1.writer = "train" =>
                /\ CopiesIn(w1, store[d].writing) = 1
                /\ w2.writer = "train" => w2 = w1
        /\ (TwoWrites(d, w1, w2) /\ FileOf(w1) = FileOf(w2)) =>
                /\ w1.kind = "results" /\ w2.kind = "results"
                /\ w1.epoch = w2.epoch /\ w1.period = w2.period
                /\ \/ w1.writer = "eval" /\ w2.writer = "eval"
                   \/ w1.period = "validation"

\* the training loop saves the weights of epoch 2 while an eval_run stores
\* the test results of epoch 1
WitC16 ==
    \E w1, w2 \in BagToSet(store[FinetuneRunDir].writing) :
        /\ w1 = Write("train", "ckpt", 2, "")
        /\ w2 = Write("eval", "results", 1, "test")

====
